---- MODULE Spec2Model ----
(***************************************************************************)
(* Royal Activity Tracker (src/main.py): the activity ledger, the guild    *)
(* configuration store, the recorder (on_message), the three background    *)
(* loops (midnight_scan, retention_cleanup, weekly_reset) and the          *)
(* configuration slash commands.                                           *)
(*                                                                         *)
(* Dates are day numbers; day 0 is a Monday, so weekday(d) = d % 7 as in   *)
(* datetime.date.weekday().  Tables are functions whose DOMAIN is the set  *)
(* of primary keys present.  NULL is 0 (all identifiers are positive).     *)
(*                                                                         *)
(* src/main.py line 109 (`def success(txt) -> royal_embed(...)`, no colon  *)
(* and no body) does not parse as Python; the handlers are modelled as     *)
(* they are written, with success() read as the embed builder its name and *)
(* its sibling error() indicate.  Every database statement a handler       *)
(* issues comes before its call of success().                              *)
(***************************************************************************)
EXTENDS Integers, Sequences, FiniteSets, TLC

\* ------------------------------------------------------------- bounds
StartDay == 5
NumDays == 3
ScanDays == 2
MaxInFlight == 2
MaxRows == 12
MaxMembers == 21
MaxPending == 2
MaxStray == 2
TickSeconds == 300

\* -------------------------------------------------- program constants
RETENTION_DAYS == 365
DefaultThreshold == 7
MinThreshold == 1
MaxThreshold == 90
ReportLimit == 10
PageSize == 10
ViewTimeout == 600

\* ---------------------------------------------------------- universes
NULL == 0
MaxDay == StartDay + NumDays
Days == 0..MaxDay
Guilds == {101, 102}
NoGuild == NULL
Users == {1, 2}
Bots == {99}
Authors == Users \cup Bots
Channels == {11, 12}
EveryoneRole == 20
ManagedRoles == {23}
AllRoles == {20, 21, 22, 23}
ThresholdInputs == {0, 1, 91}
Tasks == {"midnight_scan", "retention_cleanup", "weekly_reset"}

VARIABLES
    clock,      \* the calendar day datetime.date.today() / CURRENT_DATE returns
    activity,   \* table user_activity: <<guild_id, user_id>> -> row
    settings,   \* table guild_settings: guild_id -> row
    alive,      \* the tasks.loop objects that are still running
    due,        \* the loops whose iteration for the current day is pending
    scan,       \* what the current day's midnight_scan iteration did
    inflight,   \* on_message calls that have read the date and await the database
    last,       \* the last handler that ran, its inputs and the row it found
    heard,      \* observer of SpecWeekly: <<guild, user, day>> of qualifying messages
    view        \* the MemberPages view last opened, its buttons as the client
                \* shows them and the presses on their way (NoView: none yet)

vars == <<clock, activity, settings, alive, due, scan, inflight, last, heard, view>>

Max(a, b) == IF a >= b THEN a ELSE b

Key(g, u) == <<g, u>>

\* The row a key held, as a sequence of length 0 or 1.
Found(table, k) == IF k \in DOMAIN table THEN <<table[k]>> ELSE <<>>

NoScan ==
    [day |-> -1, reachable |-> {}, textChannels |-> {}, visited |-> <<>>,
     failed |-> NULL, fetched |-> <<>>, sent |-> <<>>]

Op(name, g, u, arg, ok, before) ==
    [op |-> name, g |-> g, u |-> u, arg |-> arg, ok |-> ok, before |-> before]

\* A slash command also records inter.user.guild_permissions.manage_guild.
SlashOp(name, g, arg, ok, before, manage_guild) ==
    [op |-> name, g |-> g, u |-> NULL, arg |-> arg, ok |-> ok, before |-> before,
     manage_guild |-> manage_guild]

\* --------------------------------------------------------- recorder
\* week_start = today - timedelta(days=today.weekday())
WeekStart(today) == today - (today % 7)

\* Faulty variant: the new row starts with a day offline.
NewActivity_OfflineOne(today, ws) ==
    [last_active_date |-> today, online_days |-> 1, offline_days |-> 1,
     week_start |-> ws, total_online |-> 1, total_offline |-> 1]

\* INSERT ... VALUES ($1,$2,$3,1,0,$4,1,0)
NewActivity(today, ws) ==
    [last_active_date |-> today, online_days |-> 1, offline_days |-> 0,
     week_start |-> ws, total_online |-> 1, total_offline |-> 0]

\* Faulty variant: an update within the week counts a day offline.
UpdatedActivity_CountsOffline(r, today, ws) ==
    [last_active_date |-> today,
     online_days      |-> IF ws = r.week_start
                          THEN Max(r.online_days + 1, 1) ELSE 1,
     offline_days     |-> IF ws = r.week_start THEN r.offline_days + 1 ELSE 0,
     week_start       |-> ws,
     total_online     |-> r.total_online + 1,
     total_offline    |-> r.total_offline]

\* ON CONFLICT ... DO UPDATE SET ... (the row the SET list produces)
UpdatedActivity(r, today, ws) ==
    [last_active_date |-> today,
     online_days      |-> IF ws = r.week_start
                          THEN Max(r.online_days + 1, 1) ELSE 1,
     offline_days     |-> IF ws = r.week_start THEN r.offline_days ELSE 0,
     week_start       |-> ws,
     total_online     |-> r.total_online + 1,
     total_offline    |-> r.total_offline]

\* Faulty variant: the DO UPDATE without its WHERE clause.
ConflictGuard_Always(r, today) == TRUE

\* WHERE user_activity.last_active_date <> $3

ConflictGuard(r, today) == r.last_active_date # today

\* The whole INSERT ... ON CONFLICT DO UPDATE ... WHERE statement.
UpsertActivity(act, g, u, today, ws) ==
    LET k == Key(g, u) IN
    IF k \notin DOMAIN act
    THEN act @@ (k :> NewActivity(today, ws))
    ELSE IF ConflictGuard(act[k], today)
         THEN [act EXCEPT ![k] = UpdatedActivity(act[k], today, ws)]
         ELSE act

\* on_message: bots and direct messages are ignored before any query.
RecordMessage(g, u) ==
    /\ IF u \in Bots \/ g = NoGuild
       THEN /\ activity' = activity
            /\ last' = Op("on_message", g, u, clock, FALSE, <<>>)
       ELSE /\ activity' = UpsertActivity(activity, g, u, clock, WeekStart(clock))
            /\ last' = Op("on_message", g, u, clock, TRUE,
                          Found(activity, Key(g, u)))
    /\ UNCHANGED <<view, clock, settings, alive, due, scan, inflight>>

on_message(g, u) == RecordMessage(g, u) /\ UNCHANGED heard

\* A message from a member (no bot) in a guild qualifies for the day.
Qualifying(g, u, day) ==
    IF u \in Bots \/ g = NoGuild THEN {} ELSE {<<g, u, day>>}

\* on_message with an observer that keeps the days of the qualifying messages.
on_message_observed(g, u) ==
    RecordMessage(g, u) /\ heard' = heard \cup Qualifying(g, u, clock)

\* The same handler in its two steps.  Lines 146-149 run when the event is
\* dispatched and fix `today`; the statement runs after the awaits of line 150
\* (a pooled connection, the round trip), and other handlers run in between.
\* A call in flight is [id, g, u, today, credited]: id tells apart two calls
\* with the same arguments, and credited records that the statement of
\* another call for the same key and date, in flight together with this one,
\* has already changed the row.
FreeId == CHOOSE i \in 1..MaxInFlight :
              /\ i \notin {x.id : x \in inflight}
              /\ \A j \in 1..(i - 1) : j \in {x.id : x \in inflight}

on_message_begin(g, u) ==
    /\ Cardinality(inflight) < MaxInFlight
    /\ IF u \in Bots \/ g = NoGuild
       THEN /\ inflight' = inflight
            /\ last' = Op("on_message", g, u, clock, FALSE, <<>>)
       ELSE /\ inflight' = inflight \cup
                    {[id |-> FreeId, g |-> g, u |-> u, today |-> clock,
                      credited |-> FALSE]}
            /\ last' = Op("on_message_begin", g, u, clock, TRUE, <<>>)
    /\ UNCHANGED <<view, heard, clock, activity, settings, alive, due, scan>>

SameEvent(x, e) == x.g = e.g /\ x.u = e.u /\ x.today = e.today

on_message_execute(e) ==
    LET after == UpsertActivity(activity, e.g, e.u, e.today, WeekStart(e.today)) IN
    /\ e \in inflight
    /\ inflight' = {IF after # activity /\ SameEvent(x, e)
                    THEN [x EXCEPT !.credited = TRUE] ELSE x :
                    x \in inflight \ {e}}
    /\ activity' = after
    /\ last' = Op("on_message", e.g, e.u, e.today, TRUE,
                  Found(activity, Key(e.g, e.u)))
    /\ UNCHANGED <<view, heard, clock, settings, alive, due, scan>>

\* ------------------------------------------------------------ clock
\* Midnight: the day changes and every running loop has an iteration to run.
\* The loops run at the day boundary, so a day ends only once they have run.
\* `loops` are the loops the specification follows.
NextDay(lastDay, loops) ==
    /\ clock < lastDay
    /\ due \cap loops = {}
    /\ clock' = clock + 1
    /\ due' = alive \cap loops
    /\ scan' = NoScan
    /\ last' = Op("next_day", NULL, NULL, clock + 1, TRUE, <<>>)
    /\ UNCHANGED <<view, heard, activity, settings, alive, inflight>>

\* ------------------------------------------------- background loops
\* A purge also records its scope (NoGuild: every guild) and the keys it deleted.
PurgeOp(name, g, cutoff, ok, deleted) ==
    [op |-> name, g |-> g, u |-> NULL, arg |-> cutoff, ok |-> ok, before |-> <<>>,
     deleted |-> deleted]

\* Faulty variant: the row dated exactly at the cutoff goes too.
PurgeOlderThan_Inclusive(act, cutoff) ==
    [k \in {j \in DOMAIN act : ~(act[j].last_active_date <= cutoff)} |-> act[k]]

\* DELETE FROM user_activity WHERE last_active_date < $1
PurgeOlderThan(act, cutoff) ==
    [k \in {j \in DOMAIN act : ~(act[j].last_active_date < cutoff)} |-> act[k]]

retention_cleanup ==
    LET cutoff == clock - RETENTION_DAYS
        after  == PurgeOlderThan(activity, cutoff) IN
    /\ "retention_cleanup" \in due
    /\ activity' = after
    /\ due' = due \ {"retention_cleanup"}
    /\ last' = PurgeOp("retention_cleanup", NoGuild, cutoff, TRUE,
                       DOMAIN activity \ DOMAIN after)
    /\ UNCHANGED <<view, heard, clock, settings, alive, scan, inflight>>

\* The administrator's purge command (/purgeactivity in the help text, line
\* 127): purgeOlderThan(guild, today - days), the rows of the caller's guild.
PurgeGuildOlderThan(act, g, cutoff) ==
    [k \in {j \in DOMAIN act :
                ~(j[1] = g /\ act[j].last_active_date < cutoff)} |-> act[k]]

PurgeDays == {1, RETENTION_DAYS}

slash_purgeactivity(g, days, manage_guild) ==
    LET cutoff == clock - days
        after  == PurgeGuildOlderThan(activity, g, cutoff) IN
    /\ IF ~manage_guild
       THEN /\ activity' = activity
            /\ last' = PurgeOp("purgeactivity", g, cutoff, FALSE, {})
       ELSE /\ activity' = after
            /\ last' = PurgeOp("purgeactivity", g, cutoff, TRUE,
                               DOMAIN activity \ DOMAIN after)
    /\ UNCHANGED <<view, heard, clock, settings, alive, due, scan, inflight>>

\* UPDATE user_activity SET online_days=0, offline_days=0, week_start=$1
\* WHERE week_start <> $1      ($1 = datetime.date.today(), on every day)
ResetWeek(act, monday) ==
    [k \in DOMAIN act |->
        IF act[k].week_start # monday
        THEN [act[k] EXCEPT !.online_days = 0, !.offline_days = 0,
                            !.week_start = monday]
        ELSE act[k]]

weekly_reset ==
    /\ "weekly_reset" \in due
    /\ activity' = ResetWeek(activity, clock)
    /\ due' = due \ {"weekly_reset"}
    /\ last' = Op("weekly_reset", NULL, NULL, clock, TRUE, <<>>)
    /\ UNCHANGED <<view, heard, clock, settings, alive, scan, inflight>>

\* ------------------------------------------------------ midnight scan
\* The statement text is passed to conn.fetch as written: nothing substitutes
\* the %s inside the quoted literal INTERVAL '%s days', and the one argument
\* (thresh) binds to $1, the placeholder compared with guild_id.
ScanIntervalQuantity == "%s"

NumeralValue == ("1" :> 1) @@ ("2" :> 2) @@ ("7" :> 7)

InvalidInterval == -1

\* The database reads the quantity of an interval literal; a quantity that is
\* no number is rejected (invalid input syntax for type interval).
IntervalDays(q) ==
    IF q \in DOMAIN NumeralValue THEN NumeralValue[q] ELSE InvalidInterval

\* SELECT user_id, offline_days + (CURRENT_DATE - last_active_date) AS current_streak
\* FROM user_activity WHERE guild_id=$1 AND last_active_date <= CURRENT_DATE - n days
SelectInactive(act, p1, n, today) ==
    {[user_id |-> k[2],
      current_streak |-> act[k].offline_days + (today - act[k].last_active_date)] :
        k \in {j \in DOMAIN act :
                 j[1] = p1 /\ act[j].last_active_date <= today - n}}

\* ORDER BY current_streak DESC: every order of the rows that is descending in
\* current_streak (rows of equal streak come in whatever order the database
\* produces).
OrderByStreakDesc(S) ==
    {s \in [1..Cardinality(S) -> S] :
        /\ \A i, j \in 1..Cardinality(S) : i # j => s[i] # s[j]
        /\ \A i, j \in 1..Cardinality(S) :
              i < j => s[i].current_streak >= s[j].current_streak}

\* conn.fetch(<statement>, thresh): the possible results.
FetchInactive(act, p1, today) ==
    LET n == IntervalDays(ScanIntervalQuantity) IN
    IF n = InvalidInterval
    THEN {[status |-> "error", rows |-> <<>>]}
    ELSE {[status |-> "ok", rows |-> rs] :
             rs \in OrderByStreakDesc(SelectInactive(act, p1, n, today))}

Take(s, n) == IF Len(s) <= n THEN s ELSE SubSeq(s, 1, n)

\* Faulty variant: every row gets a line (no rows[:10]).
BuildAlert_Untruncated(g, rec, rows, liveRoles, members) ==
    LET roles == SelectSeq(rec.role_ids, LAMBDA rid : rid \in liveRoles) IN
    [guild   |-> g,
     channel |-> rec.report_channel_id,
     roles   |-> roles,
     here    |-> roles = <<>>,
     thresh  |-> rec.alert_threshold,
     total   |-> Len(rows),
     lines   |-> SelectSeq(rows, LAMBDA row : row.user_id \in members),
     more    |-> IF Len(rows) > ReportLimit THEN Len(rows) - ReportLimit ELSE 0]

\* The embed and ping of one alert (lines 199-211).
BuildAlert(g, rec, rows, liveRoles, members) ==
    LET roles == SelectSeq(rec.role_ids, LAMBDA rid : rid \in liveRoles) IN
    [guild   |-> g,
     channel |-> rec.report_channel_id,
     roles   |-> roles,
     here    |-> roles = <<>>,
     thresh  |-> rec.alert_threshold,
     total   |-> Len(rows),
     lines   |-> SelectSeq(Take(rows, ReportLimit),
                           LAMBDA row : row.user_id \in members),
     more    |-> IF Len(rows) > ReportLimit THEN Len(rows) - ReportLimit ELSE 0]

\* Faulty variant: the alert is sent without looking at the guild, the channel
\* or the rows.
ProcessGuild_SendFirst(g, rec, act, today, reachable, textChannels, sendable) ==
    {[kind |-> "sent", status |-> "none", rows |-> <<>>,
      msg |-> <<BuildAlert(g, rec, <<>>, {}, {})>>]}

\* Faulty variant: no `if not guild: continue`; guild.get_channel on None raises.
ProcessGuild_NoGuildCheck(g, rec, act, today, reachable, textChannels, sendable) ==
    IF g \notin reachable
    THEN {[kind |-> "raised", status |-> "none", rows |-> <<>>, msg |-> <<>>]}
    ELSE IF rec.report_channel_id \notin textChannels
    THEN {[kind |-> "no_channel", status |-> "none", rows |-> <<>>, msg |-> <<>>]}
    ELSE {[kind |-> "raised", status |-> "error", rows |-> <<>>, msg |-> <<>>]}

\* One iteration of the for loop over the configured guilds (lines 183-212):
\* the set of its possible outcomes.
ProcessGuild(g, rec, act, today, reachable, textChannels, sendable) ==
    IF g \notin reachable
    THEN {[kind |-> "no_guild", status |-> "none", rows |-> <<>>, msg |-> <<>>]}
    ELSE IF rec.report_channel_id \notin textChannels
    THEN {[kind |-> "no_channel", status |-> "none", rows |-> <<>>, msg |-> <<>>]}
    ELSE UNION {
        IF res.status = "error"
        THEN {[kind |-> "raised", status |-> "error", rows |-> <<>>, msg |-> <<>>]}
        ELSE IF res.rows = <<>>
        THEN {[kind |-> "no_rows", status |-> "ok", rows |-> <<>>, msg |-> <<>>]}
        ELSE IF rec.report_channel_id \notin sendable
        THEN {[kind |-> "raised", status |-> "ok", rows |-> res.rows, msg |-> <<>>]}
        ELSE {[kind |-> "sent", status |-> "ok", rows |-> res.rows,
               msg |-> <<BuildAlert(g, rec, res.rows, liveRoles, members)>>] :
                 liveRoles \in SUBSET AllRoles, members \in SUBSET Users}
        : res \in FetchInactive(act, rec.alert_threshold, today)}

\* SELECT ... FROM guild_settings WHERE report_channel_id IS NOT NULL
Configured(cfg) == {g \in DOMAIN cfg : cfg[g].report_channel_id # NULL}

\* The rows come in no stated order.
Orders(S) ==
    {s \in [1..Cardinality(S) -> S] :
        \A i, j \in 1..Cardinality(S) : i # j => s[i] # s[j]}

\* The loop over the fetched settings rows, from position i on; an exception
\* leaves the loop and the coroutine.
RECURSIVE RunScan(_, _, _, _, _, _, _, _, _)
RunScan(order, i, acc, cfg, act, today, reachable, textChannels, sendable) ==
    IF i > Len(order)
    THEN {acc}
    ELSE LET g == order[i] IN
         UNION {
            LET step == [acc EXCEPT
                            !.visited = Append(@, g),
                            !.fetched = Append(@, [guild |-> g, status |-> o.status,
                                                   rows |-> o.rows]),
                            !.sent = @ \o o.msg] IN
            IF o.kind = "raised"
            THEN {[step EXCEPT !.failed = g]}
            ELSE RunScan(order, i + 1, step, cfg, act, today, reachable,
                         textChannels, sendable)
            : o \in ProcessGuild(g, cfg[g], act, today, reachable, textChannels,
                                 sendable)}

\* One iteration of the midnight_scan loop.  An exception that leaves the
\* coroutine ends the tasks.loop (it is none of the connection errors the loop
\* retries), so the loop never fires again.
midnight_scan ==
    /\ "midnight_scan" \in due
    /\ \E order \in Orders(Configured(settings)) :
       \E reachable \in SUBSET Configured(settings) :
       \E textChannels \in SUBSET {settings[g].report_channel_id : g \in reachable} :
       \E sendable \in SUBSET textChannels :
       \E out \in RunScan(order, 1,
                          [NoScan EXCEPT !.day = clock, !.reachable = reachable,
                                         !.textChannels = textChannels],
                          settings, activity, clock, reachable, textChannels, sendable) :
          /\ scan' = out
          /\ alive' = IF out.failed # NULL THEN alive \ {"midnight_scan"} ELSE alive
    /\ due' = due \ {"midnight_scan"}
    /\ last' = Op("midnight_scan", NULL, NULL, clock, TRUE, <<>>)
    /\ UNCHANGED <<view, heard, clock, activity, settings, inflight>>

\* --------------------------------------------- configuration commands
\* The column defaults of CREATE TABLE guild_settings.
DefaultSettings ==
    [report_channel_id |-> NULL, role_ids |-> <<>>,
     alert_threshold |-> DefaultThreshold]

\* Faulty variant: the row is replaced (the other columns back at defaults).
UpsertChannel_Replace(cfg, g, ch) ==
    (g :> [DefaultSettings EXCEPT !.report_channel_id = ch]) @@ cfg

\* INSERT INTO guild_settings(guild_id, <column>) VALUES ($1,$2)
\* ON CONFLICT (guild_id) DO UPDATE SET <column>=$2
UpsertChannel(cfg, g, ch) ==
    IF g \in DOMAIN cfg
    THEN [cfg EXCEPT ![g].report_channel_id = ch]
    ELSE cfg @@ (g :> [DefaultSettings EXCEPT !.report_channel_id = ch])

\* Faulty variant: the new roles are appended to the stored ones.
UpsertRoles_Union(cfg, g, rids) ==
    IF g \in DOMAIN cfg
    THEN [cfg EXCEPT ![g].role_ids = cfg[g].role_ids \o rids]
    ELSE cfg @@ (g :> [DefaultSettings EXCEPT !.role_ids = rids])

UpsertRoles(cfg, g, rids) ==
    IF g \in DOMAIN cfg
    THEN [cfg EXCEPT ![g].role_ids = rids]
    ELSE cfg @@ (g :> [DefaultSettings EXCEPT !.role_ids = rids])

UpsertThreshold(cfg, g, days) ==
    IF g \in DOMAIN cfg
    THEN [cfg EXCEPT ![g].alert_threshold = days]
    ELSE cfg @@ (g :> [DefaultSettings EXCEPT !.alert_threshold = days])

slash_channelset(g, ch, manage_guild) ==
    /\ IF ~manage_guild
       THEN /\ settings' = settings
            /\ last' = SlashOp("channelset", g, ch, FALSE, Found(settings, g), manage_guild)
       ELSE /\ settings' = UpsertChannel(settings, g, ch)
            /\ last' = SlashOp("channelset", g, ch, TRUE, Found(settings, g), manage_guild)
    /\ UNCHANGED <<view, heard, clock, activity, alive, due, scan, inflight>>

\* roles = [r for r in [r1..r5] if r and not r.is_default() and not r.managed]
ValidRoles(rs) ==
    SelectSeq(rs, LAMBDA r : r # NULL /\ r # EveryoneRole /\ r \notin ManagedRoles)

RoleArgs == {<<21>>, <<22>>, <<21, 22>>, <<20>>, <<23, 22>>, <<20, 23>>}

slash_roleset(g, rs, manage_guild) ==
    /\ IF ~manage_guild \/ ValidRoles(rs) = <<>>
       THEN /\ settings' = settings
            /\ last' = SlashOp("roleset", g, rs, FALSE, Found(settings, g), manage_guild)
       ELSE /\ settings' = UpsertRoles(settings, g, ValidRoles(rs))
            /\ last' = SlashOp("roleset", g, rs, TRUE, Found(settings, g), manage_guild)
    /\ UNCHANGED <<view, heard, clock, activity, alive, due, scan, inflight>>

\* Faulty variant: the statement runs whoever calls and whatever the number.
slash_setthreshold_Unchecked(g, days, manage_guild) ==
    /\ settings' = UpsertThreshold(settings, g, days)
    /\ last' = SlashOp("setthreshold", g, days, TRUE, Found(settings, g), manage_guild)
    /\ UNCHANGED <<view, heard, clock, activity, alive, due, scan, inflight>>

\* days: app_commands.Range[int, 1, 90] rejects the call before the handler.
slash_setthreshold(g, days, manage_guild) ==
    /\ IF days < MinThreshold \/ days > MaxThreshold \/ ~manage_guild
       THEN /\ settings' = settings
            /\ last' = SlashOp("setthreshold", g, days, FALSE, Found(settings, g), manage_guild)
       ELSE /\ settings' = UpsertThreshold(settings, g, days)
            /\ last' = SlashOp("setthreshold", g, days, TRUE, Found(settings, g), manage_guild)
    /\ UNCHANGED <<view, heard, clock, activity, alive, due, scan, inflight>>

\* ------------------------------------------------------- pagination
NoView == [n |-> 0]

\* update_buttons
update_buttons(v) ==
    [v EXCEPT !.disabled = [prev |-> v.page = 0, nxt |-> v.page >= v.max_page]]

\* MemberPages.__init__, and followup.send(embed=view.build(), view=view),
\* which shows the buttons to the client as __init__ left them.
MemberPages(mems, owner_id) ==
    LET v == update_buttons(
                 [n |-> Len(mems), page |-> 0,
                  max_page |-> (Len(mems) - 1) \div PageSize,
                  owner |-> owner_id, stopped |-> FALSE, idle |-> 0,
                  disabled |-> [prev |-> FALSE, nxt |-> FALSE],
                  shown |-> [prev |-> FALSE, nxt |-> FALSE],
                  pending |-> <<>>]) IN
    [v EXCEPT !.shown = v.disabled]

Buttons == {"prev", "nxt"}

\* A user presses a button the client shows enabled; the interaction is on
\* its way to the bot.  (The page is followed up to MaxStray pages beyond
\* either end.)
press(user, b) ==
    /\ view # NoView
    /\ ~view.shown[b]
    /\ Len(view.pending) < MaxPending
    /\ view.page >= 0 - MaxStray
    /\ view.page <= view.max_page + MaxStray
    /\ view' = [view EXCEPT !.pending = Append(@, [user |-> user, button |-> b])]
    /\ last' = Op("press", NULL, user, b, TRUE, <<>>)
    /\ UNCHANGED <<heard, clock, activity, settings, alive, due, scan, inflight>>

\* interaction_check
interaction_check(v, user) == user = v.owner

\* The callbacks prev and nxt: self.page -= 1 / += 1, update_buttons().
prev(v) == update_buttons([v EXCEPT !.page = @ - 1])

nxt(v) == update_buttons([v EXCEPT !.page = @ + 1])

\* The library dispatches the next interaction to the view: nothing once the
\* view has timed out (it is no longer in the view store), nothing when
\* interaction_check refuses; else the timeout starts anew and the callback
\* of the button runs.  Its edit_message reaches the client later (render).
dispatch ==
    /\ view # NoView
    /\ view.pending # <<>>
    /\ LET e    == Head(view.pending)
           rest == [view EXCEPT !.pending = Tail(@)]
           ok   == ~view.stopped /\ interaction_check(view, e.user) IN
       /\ view' = IF ~ok THEN rest
                  ELSE IF e.button = "prev"
                       THEN prev([rest EXCEPT !.idle = 0])
                       ELSE nxt([rest EXCEPT !.idle = 0])
       /\ last' = Op(e.button, NULL, e.user, view.page, ok, <<>>)
    /\ UNCHANGED <<heard, clock, activity, settings, alive, due, scan, inflight>>

\* The client receives the edited message and shows its buttons.
render ==
    /\ view # NoView
    /\ view.shown # view.disabled
    /\ view' = [view EXCEPT !.shown = view.disabled]
    /\ last' = Op("render", NULL, NULL, view.page, TRUE, <<>>)
    /\ UNCHANGED <<heard, clock, activity, settings, alive, due, scan, inflight>>

\* Time passes without an interaction being dispatched, short of the timeout.
tick ==
    /\ view # NoView
    /\ ~view.stopped
    /\ view.idle + TickSeconds < ViewTimeout
    /\ view' = [view EXCEPT !.idle = @ + TickSeconds]
    /\ last' = Op("tick", NULL, NULL, view.idle + TickSeconds, TRUE, <<>>)
    /\ UNCHANGED <<heard, clock, activity, settings, alive, due, scan, inflight>>

\* on_timeout, when timeout=600 seconds have passed without a dispatched
\* interaction: the view stops, every child is disabled, the message is edited.
on_timeout ==
    /\ view # NoView
    /\ ~view.stopped
    /\ view.idle + TickSeconds >= ViewTimeout
    /\ view' = [view EXCEPT !.idle = @ + TickSeconds,
                            !.stopped = TRUE,
                            !.disabled = [prev |-> TRUE, nxt |-> TRUE]]
    /\ last' = Op("on_timeout", NULL, NULL, view.page, TRUE, <<>>)
    /\ UNCHANGED <<heard, clock, activity, settings, alive, due, scan, inflight>>

\* ----------------------------------------------------- daily listings
\* A member of a guild who has never written.
Lurker == 3

\* inter.guild.members, in the order the library holds them (bots included).
MemberLists ==
    {<<99>>, <<2, 1>>, <<1, 99, 2>>, <<Lurker, 1, 2, 99>>}

\* m.display_name.lower() as its place in the alphabet: the names of member 1
\* and of the lurker differ in case only, so their keys are equal.
\* The other members are named in the order of their ids.
NameRank ==
    [m \in (1..MaxMembers) \cup Bots |->
        IF m = 1 \/ m = Lurker THEN 2 ELSE IF m = 2 THEN 1 ELSE m]

\* list.sort(key=...): ascending and stable.
RECURSIVE SortByName(_)
SortByName(ms) ==
    IF ms = <<>> THEN <<>>
    ELSE LET h    == Head(ms)
             rest == SortByName(Tail(ms)) IN
         SelectSeq(rest, LAMBDA x : NameRank[x] < NameRank[h])
             \o <<h>> \o
         SelectSeq(rest, LAMBDA x : NameRank[x] >= NameRank[h])

\* Faulty variant: the query without its guild condition.
ActiveIds_AnyGuild(act, g, today) ==
    {k[2] : k \in {j \in DOMAIN act : act[j].last_active_date = today}}

\* SELECT user_id FROM user_activity WHERE guild_id=$1 AND last_active_date=$2
ActiveIds(act, g, today) ==
    {k[2] : k \in {j \in DOMAIN act :
                      j[1] = g /\ act[j].last_active_date = today}}

InactiveToday(act, g, members, today) ==
    SortByName(SelectSeq(members,
        LAMBDA m : m \notin Bots /\ m \notin ActiveIds(act, g, today)))

ActiveToday(act, g, members, today) ==
    SortByName(SelectSeq(members,
        LAMBDA m : m \notin Bots /\ m \in ActiveIds(act, g, today)))

\* A listing command records the member list it was given and what it shows;
\* ok tells that there was something to page through.
ListOp(name, g, caller, members, listing) ==
    [op |-> name, g |-> g, u |-> caller, arg |-> members, ok |-> listing # <<>>,
     before |-> <<>>, listing |-> listing]

\* An empty listing is answered with a plain message; any other opens a view
\* owned by the caller (inter.user.id).
OpenPages(listing, caller) ==
    IF listing = <<>> THEN view ELSE MemberPages(listing, caller)

slash_listinactive(g, caller, members) ==
    LET inactive == InactiveToday(activity, g, members, clock) IN
    /\ last' = ListOp("listinactive", g, caller, members, inactive)
    /\ view' = OpenPages(inactive, caller)
    /\ UNCHANGED <<heard, clock, activity, settings, alive, due, scan, inflight>>

slash_active(g, caller, members) ==
    LET active == ActiveToday(activity, g, members, clock) IN
    /\ last' = ListOp("active", g, caller, members, active)
    /\ view' = OpenPages(active, caller)
    /\ UNCHANGED <<heard, clock, activity, settings, alive, due, scan, inflight>>

\* ------------------------------------------------------ specification
\* After setup_hook: empty tables, the three loops started.  The hours=24
\* loop runs its first iteration at once, the time=00:00 loops at midnight.
Init ==
    /\ clock = StartDay
    /\ activity = <<>>
    /\ settings = <<>>
    /\ alive = Tasks
    /\ due = {"retention_cleanup"}
    /\ scan = NoScan
    /\ inflight = {}
    /\ last = Op("setup_hook", NULL, NULL, NULL, TRUE, <<>>)
    /\ heard = {}
    /\ view = NoView

\* The events of the recorder's specifications: two users of one guild, one
\* user of the other, a bot, and a direct message.
MessageInputs == {<<101, 1>>, <<101, 2>>, <<102, 1>>, <<101, 99>>, <<NoGuild, 1>>}

Message == \E m \in MessageInputs : on_message(m[1], m[2])

Configure ==
    \/ \E g \in Guilds, ch \in Channels, p \in BOOLEAN : slash_channelset(g, ch, p)
    \/ \E g \in Guilds, rs \in RoleArgs, p \in BOOLEAN : slash_roleset(g, rs, p)
    \/ \E g \in Guilds, d \in ThresholdInputs, p \in BOOLEAN : slash_setthreshold(g, d, p)

NextRecorder ==
    \/ Message
    \/ NextDay(MaxDay, Tasks)
    \/ midnight_scan
    \/ retention_cleanup
    \/ weekly_reset

SpecRecorder == Init /\ [][NextRecorder]_vars

\* The recorder with the handler's awaits: an event is dated when it is
\* dispatched and written when its statement runs.
InFlightInputs == {<<101, 1>>, <<101, 99>>, <<NoGuild, 1>>}

InFlightMessage ==
    \/ \E m \in InFlightInputs : on_message_begin(m[1], m[2])
    \/ \E e \in inflight : on_message_execute(e)

NextInFlight ==
    \/ InFlightMessage
    \/ NextDay(MaxDay, Tasks)
    \/ midnight_scan
    \/ retention_cleanup
    \/ weekly_reset

SpecInFlight == Init /\ [][NextInFlight]_vars

SpecConfig == Init /\ [][Configure]_vars

\* The recorder and the weekly reset, with the observer.
WeeklyInputs == {<<101, 1>>, <<101, 2>>, <<101, 99>>, <<NoGuild, 1>>}

NextWeekly ==
    \/ \E m \in WeeklyInputs : on_message_observed(m[1], m[2])
    \/ NextDay(MaxDay, {"weekly_reset"})
    \/ weekly_reset

SpecWeekly == Init /\ [][NextWeekly]_vars

\* The recorder and the two listing commands.
ListingInputs == {<<101, 1>>, <<101, 2>>}

NextListing ==
    \/ \E m \in ListingInputs : on_message(m[1], m[2])
    \/ NextDay(MaxDay, {})
    \/ \E g \in Guilds, ms \in MemberLists : slash_listinactive(g, 1, ms)
    \/ \E g \in Guilds, ms \in MemberLists : slash_active(g, 1, ms)

SpecListing == Init /\ [][NextListing]_vars

\* The report builder (lines 199-211) as a function of what the iteration
\* holds when it reaches it: the settings row, the fetched rows (ordered by
\* streak, descending), the roles and the members the guild still has.
AlertUsers == 1..MaxRows

AlertRows(n) ==
    [i \in 1..n |-> [user_id |-> i,
                     current_streak |-> DefaultThreshold + ((n - i) \div 2)]]

\* Everyone is still a member, or all but one, or no one.
AlertMembers == {AlertUsers \ S : S \in {{}} \cup {{u} : u \in AlertUsers}} \cup {{}}

AlertRoleIds == {<<>>, <<21>>, <<21, 22>>}

InitAlert ==
    /\ clock = StartDay
    /\ activity = <<>>
    /\ \E rids \in AlertRoleIds :
           settings = (101 :> [DefaultSettings EXCEPT !.report_channel_id = 11,
                                                     !.role_ids = rids])
    /\ alive = Tasks
    /\ due = {}
    /\ scan = NoScan
    /\ inflight = {}
    /\ heard = {}
    /\ view = NoView
    /\ \E n \in 0..MaxRows, members \in AlertMembers, liveRoles \in SUBSET {21, 22} :
           last = [op |-> "rows", g |-> 101, u |-> NULL, ok |-> TRUE, before |-> <<>>,
                   arg |-> [rows |-> AlertRows(n), members |-> members,
                            liveRoles |-> liveRoles]]

build_alert ==
    /\ last.op = "rows"
    /\ last' = [last EXCEPT !.op = "alert"] @@
                [alert |-> BuildAlert(last.g, settings[last.g], last.arg.rows,
                                      last.arg.liveRoles, last.arg.members)]
    /\ UNCHANGED <<view, heard, clock, activity, settings, alive, due, scan, inflight>>

SpecAlert == InitAlert /\ [][build_alert]_vars

\* A listing command on a guild nobody has written in yet (every member is
\* inactive today), and the view it opens.
PageSizes == {1, PageSize, PageSize + 1, MaxMembers}

GuildOf(n) == [i \in 1..n |-> i]

NextPages ==
    \/ \E n \in PageSizes, caller \in Users :
           slash_listinactive(101, caller, GuildOf(n))
    \/ \E user \in Users, b \in Buttons : press(user, b)
    \/ dispatch
    \/ render
    \/ tick
    \/ on_timeout

SpecPages == Init /\ [][NextPages]_vars

\* The store outlives the process (CREATE TABLE IF NOT EXISTS): a start,
\* RETENTION_DAYS after StartDay, that finds rows written around the day the
\* first retention cutoff falls on, and on the eve of the start.
RetentionStart == StartDay + RETENTION_DAYS

StoredDates ==
    {StartDay - 1, StartDay, StartDay + 1, RetentionStart - 1}

StoredKeys == {Key(101, 1), Key(101, 2), Key(102, 1)}

StoredTables ==
    UNION {[K -> {NewActivity(d, WeekStart(d)) : d \in StoredDates}] :
              K \in SUBSET StoredKeys}

InitRetention ==
    /\ clock = RetentionStart
    /\ activity \in StoredTables
    /\ settings = <<>>
    /\ alive = Tasks
    /\ due = {"retention_cleanup"}
    /\ scan = NoScan
    /\ inflight = {}
    /\ last = Op("setup_hook", NULL, NULL, NULL, TRUE, <<>>)
    /\ heard = {}
    /\ view = NoView

NextRetention ==
    \/ on_message(101, 1)
    \/ NextDay(RetentionStart + NumDays, {"retention_cleanup"})
    \/ retention_cleanup
    \/ \E g \in Guilds, days \in PurgeDays, p \in BOOLEAN :
           slash_purgeactivity(g, days, p)

SpecRetention == InitRetention /\ [][NextRetention]_vars

\* The configuration commands, the recorder and the daily scan, on the inputs
\* the scan needs.
ScanConfigure ==
    \/ \E g \in Guilds : slash_channelset(g, 11, TRUE)
    \/ slash_roleset(102, <<21>>, TRUE)
    \/ slash_setthreshold(101, 1, TRUE)

ScanMessage == \E u \in Users : on_message(101, u)

Next ==
    \/ ScanMessage
    \/ ScanConfigure
    \/ NextDay(StartDay + ScanDays, {"midnight_scan"})
    \/ midnight_scan

Spec == Init /\ [][Next]_vars

\* ============================================================ claims
Range(s) == {s[i] : i \in DOMAIN s}

LastKey == Key(last.g, last.u)

\* The last step was an on_message that reached the upsert and found a row.
RecordedOnRow ==
    /\ last.op = "on_message"
    /\ last.ok
    /\ last.before # <<>>

\* C1: once a (guild,user) row has last_active_date = D, an on_message event
\* dated D changes nothing: the whole user_activity table, and so the row and
\* its offline counter, is the same after the event as before it.
C1_SameDayIdempotent ==
    [][(/\ last'.op = "on_message"
        /\ last'.ok
        /\ Key(last'.g, last'.u) \in DOMAIN activity
        /\ activity[Key(last'.g, last'.u)].last_active_date = last'.arg)
       => activity' = activity]_vars

\* A same-day repeat has happened: the event found the row already dated today.
C1_Witness ==
    /\ RecordedOnRow
    /\ last.before[1].last_active_date = last.arg
    /\ last.before[1].total_online >= 2
    /\ activity[LastKey] = last.before[1]

\* C2: no write sets last_active_date of a row to a date earlier than the one
\* stored before the write.
C2_LastActiveNeverMovesBack ==
    [][\A k \in DOMAIN activity \cap DOMAIN activity' :
          activity'[k].last_active_date >= activity[k].last_active_date]_vars

\* C3: an event k >= 2 days after the row's last_active_date leaves
\* offline_days equal to its previous value plus 1.
C3_GapAddsOne ==
    (RecordedOnRow /\ last.arg - last.before[1].last_active_date >= 2)
        => activity[LastKey].offline_days = last.before[1].offline_days + 1

\* ---- the daily scan, in the state right after a midnight_scan iteration
\* (tables as the iteration read them).
Scanned == last.op = "midnight_scan"

\* The guilds the iteration is to report on: configured channel, guild
\* reachable, channel a text channel.
Reportable(g) ==
    /\ g \in Configured(settings)
    /\ g \in scan.reachable
    /\ settings[g].report_channel_id \in scan.textChannels

\* The inactive list the iteration obtained for guild g (empty when none).
ListFor(g) ==
    IF \E i \in DOMAIN scan.fetched : scan.fetched[i].guild = g
    THEN (CHOOSE e \in Range(scan.fetched) : e.guild = g).rows
    ELSE <<>>

ListedUsers(g) == {row.user_id : row \in Range(ListFor(g))}

\* The users of g whose row is at least alert_threshold days old on scan day.
OverThreshold(g) ==
    {u \in Users :
        /\ Key(g, u) \in DOMAIN activity
        /\ activity[Key(g, u)].last_active_date
              <= scan.day - settings[g].alert_threshold}

\* C4: in the scan of day T, guild G's inactive list holds exactly the users
\* with a row in G whose last_active_date is at least alert_threshold days
\* before T.
C4_InactiveListExact ==
    Scanned => \A g \in Guilds : Reportable(g) => ListedUsers(g) = OverThreshold(g)

\* C5: for a row with last_active_date = D and stored offline counter s, the
\* scan of day D+k reports that user with current_streak = s + k.
C5_StreakIsBaselinePlusElapsed ==
    Scanned =>
        \A g \in Guilds : Reportable(g) =>
            \A u \in OverThreshold(g) :
                [user_id |-> u,
                 current_streak |-> activity[Key(g, u)].offline_days
                        + (scan.day - activity[Key(g, u)].last_active_date)]
                    \in Range(ListFor(g))

\* C6: the inactive list is the over-threshold users in one fixed order:
\* streak descending, equal streaks by ascending user identifier.
ExpectedRows(g) ==
    {[user_id |-> u,
      current_streak |-> activity[Key(g, u)].offline_days
            + (scan.day - activity[Key(g, u)].last_active_date)] :
        u \in OverThreshold(g)}

Before(a, b) ==
    \/ a.current_streak > b.current_streak
    \/ a.current_streak = b.current_streak /\ a.user_id < b.user_id

C6_ListTotallyOrdered ==
    Scanned =>
        \A g \in Guilds : Reportable(g) =>
            /\ Range(ListFor(g)) = ExpectedRows(g)
            /\ \A i, j \in DOMAIN ListFor(g) :
                  i < j => Before(ListFor(g)[i], ListFor(g)[j])

\* C7: when processing one guild fails in a tick, every other configured guild
\* is still processed in that tick and the loop stays scheduled.
C7_FailureIsolated ==
    (Scanned /\ scan.failed # NULL) =>
        /\ Configured(settings) \subseteq Range(scan.visited)
        /\ "midnight_scan" \in alive

\* C10: a tick sends a message for a guild only if its report_channel_id is
\* set and its inactive list is non-empty, and at most one per guild.
C10_AlertOnlyWhenDue ==
    Scanned =>
        \A i \in DOMAIN scan.sent :
            LET m == scan.sent[i] IN
            /\ m.guild \in DOMAIN settings
            /\ settings[m.guild].report_channel_id # NULL
            /\ ListFor(m.guild) # <<>>
            /\ m.total > 0
            /\ \A j \in DOMAIN scan.sent : j # i => scan.sent[j].guild # m.guild

\* A tick ran over a guild whose channel is unset although a member of it is
\* over threshold, and over a guild with a channel; nothing was sent.
C10_Witness ==
    /\ Scanned
    /\ \E g \in DOMAIN settings :
          /\ settings[g].report_channel_id = NULL
          /\ OverThreshold(g) # {}
          /\ \A i \in DOMAIN scan.sent : scan.sent[i].guild # g
    /\ \E h \in Configured(settings) : h \in Range(scan.visited)
    /\ scan.sent = <<>>

\* ---- the configuration commands
Configured1(op) == last.op = op /\ last.ok

\* The row of guild g before a command, a missing row read as the column
\* defaults (no channel, no roles, threshold 7).
RowOrDefaults(cfg, g) ==
    IF g \in DOMAIN cfg
    THEN cfg[g]
    ELSE [report_channel_id |-> NULL, role_ids |-> <<>>, alert_threshold |-> 7]

\* C8: a successful channelset, roleset or setthreshold leaves guild g with
\* its previous row (or the defaults, when it had none) changed in the named
\* field only, and leaves every other guild's row as it was.
C8_FieldsUpsertIndependently ==
    [][(last'.ok /\ last'.op \in {"channelset", "roleset", "setthreshold"}) =>
        LET g == last'.g
            old == RowOrDefaults(settings, g) IN
        /\ DOMAIN settings' = DOMAIN settings \cup {g}
        /\ \A h \in DOMAIN settings \ {g} : settings'[h] = settings[h]
        /\ last'.op = "channelset" =>
              settings'[g] = [old EXCEPT !.report_channel_id = last'.arg]
        /\ last'.op = "roleset" =>
              /\ settings'[g].report_channel_id = old.report_channel_id
              /\ settings'[g].alert_threshold = old.alert_threshold
              /\ Range(settings'[g].role_ids) \subseteq Range(last'.arg)
        /\ last'.op = "setthreshold" =>
              settings'[g] = [old EXCEPT !.alert_threshold = last'.arg]
      ]_vars

\* channelset ran on a guild whose row held roles and a non-default threshold,
\* while the other guild has a row of its own.
C8_Witness ==
    /\ Configured1("channelset")
    /\ last.before # <<>>
    /\ last.before[1].role_ids # <<>>
    /\ last.before[1].alert_threshold # DefaultThreshold
    /\ last.before[1].report_channel_id \notin {NULL, last.arg}
    /\ settings[last.g] = [last.before[1] EXCEPT !.report_channel_id = last.arg]
    /\ DOMAIN settings = Guilds

\* C9: a successful roleset stores exactly the valid roles it was given,
\* nothing of the previous list, and no other step changes a stored role list;
\* so after roleset A then roleset B the list is B, whatever ran in between.
C9_RolesReplacedWholesale ==
    [][\A g \in Guilds :
        IF last'.op = "roleset" /\ last'.ok /\ last'.g = g
        THEN /\ g \in DOMAIN settings'
             /\ settings'[g].role_ids =
                  SelectSeq(last'.arg, LAMBDA r : r \in {21, 22})
        ELSE g \in DOMAIN settings =>
                /\ g \in DOMAIN settings'
                /\ settings'[g].role_ids = settings[g].role_ids
      ]_vars

\* A second roleset ran on a guild whose stored list A had a role that the new
\* list B lacks, with other commands on that guild in between.
C9_Witness ==
    /\ Configured1("roleset")
    /\ last.before # <<>>
    /\ Range(last.before[1].role_ids) \ Range(settings[last.g].role_ids) # {}
    /\ last.before[1].report_channel_id # NULL
    /\ last.before[1].alert_threshold # DefaultThreshold
    /\ settings[last.g].role_ids # <<>>

\* ---- concurrent recorder calls
\* The call whose statement the step runs.
Executes(e) ==
    /\ e \in inflight
    /\ e.id \notin {x.id : x \in inflight'}

TotalOnlineOf(act, k) == IF k \in DOMAIN act THEN act[k].total_online ELSE 0

\* C11: of two on_message calls for the same key and the same day that are in
\* flight together, exactly one changes the row: once the statement of one has
\* credited the day (total_online + 1), the statement of the other changes
\* nothing; and a statement for one key applies fully (the day is credited
\* when the row is absent or holds another date) and touches no other key.
C11_ConcurrentEventsSafe ==
    [][\A e \in inflight : Executes(e) =>
          LET k == Key(e.g, e.u) IN
          /\ e.credited => activity' = activity
          /\ \A j \in DOMAIN activity \ {k} :
                 j \in DOMAIN activity' /\ activity'[j] = activity[j]
          /\ DOMAIN activity' = DOMAIN activity \cup {k}
          /\ TotalOnlineOf(activity', k) =
                 TotalOnlineOf(activity, k) +
                 (IF k \in DOMAIN activity /\ activity[k].last_active_date = e.today
                  THEN 0 ELSE 1)]_vars

\* ---- rejected configuration commands
\* C12: a configuration command that is rejected (the caller lacks
\* manage_guild; roleset with no role left after the default role and the
\* managed roles are dropped; setthreshold outside 1..90) leaves
\* guild_settings exactly as it was and answers with an error.
C12_RejectedCommandsMutateNothing ==
    [][(/\ last'.op \in {"channelset", "roleset", "setthreshold"}
        /\ \/ ~last'.manage_guild
           \/ /\ last'.op = "roleset"
              /\ \A i \in DOMAIN last'.arg :
                     \/ last'.arg[i] = EveryoneRole
                     \/ last'.arg[i] \in ManagedRoles
           \/ /\ last'.op = "setthreshold"
              /\ last'.arg \notin MinThreshold..MaxThreshold)
       => settings' = settings /\ ~last'.ok]_vars

\* A fully configured guild right after a rejected command.
C12_Witness ==
    /\ ~last.ok
    /\ last.before # <<>>
    /\ settings[last.g] = last.before[1]
    /\ last.before[1].role_ids # <<>>
    /\ last.before[1].alert_threshold # DefaultThreshold
    /\ \/ last.op = "channelset" /\ ~last.manage_guild
       \/ last.op = "roleset" /\ last.manage_guild /\ last.arg = <<20, 23>>
       \/ last.op = "setthreshold" /\ last.manage_guild /\ last.arg > MaxThreshold

\* ---- the schedule of the daily scan
\* C13: while the process stays up the scan fires exactly once per calendar
\* day: on every day after the day of the start the iteration of that day has
\* run or is about to run (no day with none), and an iteration never runs on
\* a day on which one has already run (no day with two).
C13_ScanOncePerDay ==
    [][/\ clock' > StartDay =>
              (scan'.day = clock' \/ "midnight_scan" \in due')
       /\ last'.op = "midnight_scan" => scan.day # clock]_vars

\* ---- retention and purge
Purges == last'.op \in {"retention_cleanup", "purgeactivity"} /\ last'.ok

\* C14: a purge with cutoff c deletes exactly the rows dated before c and
\* leaves every row dated on or after c as it was; the daily job takes
\* c = today - 365 and every guild, the command takes the caller's guild only.
C14_PurgeDeletesExactlyOlder ==
    [][Purges =>
          LET c == last'.arg
              inScope(k) == last'.g = NoGuild \/ k[1] = last'.g IN
          /\ DOMAIN activity' =
                 {k \in DOMAIN activity :
                     ~(inScope(k) /\ activity[k].last_active_date < c)}
          /\ \A k \in DOMAIN activity' : activity'[k] = activity[k]
          /\ last'.op = "retention_cleanup" =>
                 c = clock - 365 /\ last'.g = NoGuild]_vars

\* The daily job has deleted a row and kept one dated exactly at the cutoff.
C14_Witness ==
    /\ last.op = "retention_cleanup"
    /\ last.deleted # {}
    /\ \E k \in DOMAIN activity : activity[k].last_active_date = last.arg
    /\ \E k \in DOMAIN activity : activity[k].last_active_date > last.arg

\* ---- the offline counter
\* C15: an event on day D + 1 for a row last active on day D leaves
\* offline_days = 0.
C15_NextDayLeavesOfflineZero ==
    (RecordedOnRow /\ last.arg = last.before[1].last_active_date + 1)
        => activity[LastKey].offline_days = 0

\* An event the day after the row's date, in the same week, has updated the row.
C15_Witness ==
    /\ RecordedOnRow
    /\ last.arg = last.before[1].last_active_date + 1
    /\ WeekStart(last.arg) = last.before[1].week_start
    /\ activity[LastKey].last_active_date = last.arg
    /\ activity[LastKey].total_online = last.before[1].total_online + 1

\* ---- the weekly counters
\* The days of the Monday-started week of day d on which the key had a
\* qualifying message.
DaysHeardInWeek(g, u, d) ==
    {x \in WeekStart(d)..(WeekStart(d) + 6) : <<g, u, x>> \in heard}

\* C16: the weekly counters are bucketed by Monday: every stored week_start
\* is a Monday, and after an event on day d the row's week_start is the
\* Monday of the week of d and its online_days is the number of distinct days
\* of that week on which the user had a qualifying message.
C16_WeeklyBucketsByMonday ==
    /\ \A k \in DOMAIN activity : activity[k].week_start % 7 = 0
    /\ (last.op = "on_message" /\ last.ok) =>
          /\ activity[LastKey].week_start = last.arg - (last.arg % 7)
          /\ activity[LastKey].online_days =
                 Cardinality(DaysHeardInWeek(last.g, last.u, last.arg))

\* ---- the daily listings
HasRowToday(g, m) ==
    /\ Key(g, m) \in DOMAIN activity
    /\ activity[Key(g, m)].last_active_date = clock

\* C17: for the store and the member list a listing command has just read,
\* the active-today and the inactive-today listings partition the non-bot
\* members (each is in exactly one, once; bots are in neither), a member is in
\* active-today iff their row is dated today, a member without a row is in
\* inactive-today, and the command shows its listing.
C17_ListingsPartitionMembers ==
    last.op \in {"listinactive", "active"} =>
        LET ms == last.arg
            A  == ActiveToday(activity, last.g, ms, clock)
            I  == InactiveToday(activity, last.g, ms, clock)
            humans == {m \in Range(ms) : m \notin Bots} IN
        /\ last.listing = (IF last.op = "active" THEN A ELSE I)
        /\ Range(A) \cap Range(I) = {}
        /\ Range(A) \cup Range(I) = humans
        /\ Len(A) + Len(I) = Cardinality(humans)
        /\ \A m \in humans : m \in Range(A) <=> HasRowToday(last.g, m)
        /\ \A m \in humans :
               Key(last.g, m) \notin DOMAIN activity => m \in Range(I)

\* /listinactive on a guild with a bot, a member active today, a member whose
\* row is older and a member without a row.
C17_Witness ==
    /\ last.op = "listinactive"
    /\ Range(last.arg) \cap Bots # {}
    /\ \E m \in Range(last.arg) : HasRowToday(last.g, m)
    /\ \E m \in Range(last.listing) : Key(last.g, m) \notin DOMAIN activity
    /\ \E m \in Range(last.listing) :
           /\ Key(last.g, m) \in DOMAIN activity
           /\ activity[Key(last.g, m)].last_active_date < clock

\* ---- the report
\* The rows among the first ten whose user has left the guild.
Departed(rows, members) ==
    {i \in 1..Len(rows) : i <= 10 /\ rows[i].user_id \notin members}

\* What C18 says of a report apart from its last clause: at most 10 lines,
\* none of a row that a row outside the first ten outranks, the note present
\* iff there are more than 10 rows, with K = total - 10.
ReportBounded(a, rows) ==
    /\ a.total = Len(rows)
    /\ Len(a.lines) <= 10
    /\ \A i \in DOMAIN a.lines :
           /\ \E j \in 1..Len(rows) : j <= 10 /\ a.lines[i] = rows[j]
           /\ \A j \in 1..Len(rows) :
                  j > 10 => a.lines[i].current_streak >= rows[j].current_streak
    /\ (a.more > 0) <=> (Len(rows) > 10)
    /\ Len(rows) > 10 => a.more = Len(rows) - 10

Unresolvable(g) == g \in Configured(settings) /\ ~Reportable(g)

SampleRows ==
    <<[user_id |-> 1, current_streak |-> 9], [user_id |-> 2, current_streak |-> 8]>>

\* C19: a configured guild that is out of reach, or whose channel is missing
\* or no text channel, gets no message and does not stop the iteration, which
\* goes on to the next guild; and in the report for a settings row a role
\* that no longer exists is left out of the ping (@here when no role is
\* left) and a row whose user is no longer a member gets no line.
C19_UnresolvableSkipped ==
    /\ Scanned =>
          \A i \in DOMAIN scan.visited :
              LET g == scan.visited[i] IN
              Unresolvable(g) =>
                  /\ \A j \in DOMAIN scan.sent : scan.sent[j].guild # g
                  /\ scan.failed # g
                  /\ i = Len(scan.visited) =>
                         Range(scan.visited) = Configured(settings)
    /\ \A g \in Configured(settings) :
       \A liveRoles \in SUBSET Range(settings[g].role_ids), members \in SUBSET Users :
          LET rows == SampleRows
              a    == BuildAlert(g, settings[g], rows, liveRoles, members)
              ids  == settings[g].role_ids IN
          /\ Range(a.roles) = Range(ids) \cap liveRoles
          /\ Len(a.roles) = Cardinality({i \in DOMAIN ids : ids[i] \in liveRoles})
          /\ a.here <=> (Range(ids) \cap liveRoles = {})
          /\ {l.user_id : l \in Range(a.lines)} =
                 {rows[i].user_id : i \in DOMAIN rows} \cap members

\* An iteration passed over a guild out of reach and went on to the next
\* configured guild, whose roles are set.
C19_Witness ==
    /\ Scanned
    /\ Len(scan.visited) = 2
    /\ scan.visited[1] \notin scan.reachable
    /\ scan.visited[2] \in scan.reachable
    /\ scan.sent = <<>>
    /\ settings[scan.visited[2]].role_ids # <<>>

\* ---- the stored offline counters
\* The streak the scan's query computes for a row on day `today`.
DisplayedStreak(k, today) ==
    (CHOOSE r \in SelectInactive(activity, k[1], 0, today) :
        r.user_id = k[2]).current_streak

SameView ==
    /\ view # NoView
    /\ view' # NoView
    /\ last'.op \notin {"listinactive", "active"}

\* The page index stays within 0..max_page.
PageInRange == view' # NoView => (0 <= view'.page /\ view'.page <= view'.max_page)

\* The page changes only when an interaction of the owner is dispatched, and
\* never once the view has timed out.
PageChangesByOwnerInTime ==
    (SameView /\ view'.page # view.page) =>
        /\ view.pending # <<>>
        /\ Head(view.pending).user = view.owner
        /\ ~view.stopped
        /\ view.idle < 600

\* C21: for a view over a non-empty list, after any sequence of Previous and
\* Next interactions (two presses dispatched back to back before the client
\* shows the new buttons included) 0 <= page <= max_page; only the user who
\* asked for the listing changes the page; after the timeout nothing does.
C21_PageStaysInRange ==
    [][PageInRange /\ PageChangesByOwnerInTime]_vars

====
